---- MODULE Spec2Model ----
\* m3u2strm: the sync stage of task.py (pointer files, live.m3u, the checksum
\* store), the pipeline run run_task inside the periodic loop, the manual
\* re-run cooldown of rerun_task, and the functions in front of the sync
\* stage: parse_m3u_file, categorize_items and the file names built from a
\* title, each followed under a specification of its own (ParseSpec,
\* CategorizeSpec, NameSpec).
\*
\* Text is modelled as a sequence of one-character strings, a relative path as
\* the sequence of its segments, and a file's content as a sequence of lines,
\* each line a sequence of tokens.
EXTENDS Integers, Sequences, FiniteSets, TLC

VARIABLES
    pc,            \* position of the main thread in the loop of __main__ / run_task
    playlist,      \* what get_m3u_file's path names in this run
    items,         \* categorized_items of this run: [series, movies, live]
    idx,           \* index of the next item of the category being synced
    disk,          \* output tree: relative path -> content of the file there
    persisted,     \* vods/.checksums.json: Missing, Corrupt, Unloadable or Stored(map)
    checksums,     \* the in-memory checksums dict of this run
    counts,        \* per category: updated_count, new_files_count, unchanged_count, new_items_details
    disturbed,     \* failing file operations and outside changes to the files so far
    last,          \* history: the artifact decision taken most recently
    run,           \* history: what this run started from and did
    prev,          \* history: the run before synced all categories without a failure, and nothing changed since
    now,           \* time.time(), in seconds
    last_run_time, \* task.py:888
    mainRun,       \* the loop of __main__: "idle" (sleeping), "running" (inside run_task), "dead"
    web,           \* per web request thread: Idle, or Passed with the current_time it read in rerun_task
    manual,        \* manual run_task threads running
    lastStart,     \* history: start time of the most recent run_task
    trig,          \* history: the outcome of the most recent rerun_task call
    categorizer,   \* categorize_items: its filters, its input entries and its three lists
    parser,        \* parse_m3u_file: the document read and the items returned
    namer          \* the names built from one title: its input and the names

syncVars == <<pc, playlist, items, idx, disk, persisted, checksums, counts,
              disturbed, last, run, prev>>
schedVars == <<now, last_run_time, mainRun, web, manual, lastStart, trig>>
pureVars == <<categorizer, parser, namer>>
vars == <<syncVars, schedVars, pureVars>>

----------------------------------------------------------------------------
\* Bounds of the model

MaxItems == 2       \* classified items of one run, over the three categories
MaxDisturbed == 1   \* failing file operations and outside changes in a behaviour

MaxWeb == 2         \* web request threads
MaxManual == 2      \* manual run_task threads alive at once
Horizon == 12       \* seconds of clock time followed

\* rerun_task: seconds between two accepted manual triggers
Cooldown == 10

None == "none"
EmptyMap == [q \in {} |-> q]

----------------------------------------------------------------------------
\* Text helpers

RECURSIVE RStrip(_, _)
\* str.rstrip(chars)
RStrip(s, chars) ==
    IF s = <<>> THEN <<>>
    ELSE IF s[Len(s)] \in chars THEN RStrip(SubSeq(s, 1, Len(s) - 1), chars)
    ELSE s

RECURSIVE LStrip(_, _)
LStrip(s, chars) ==
    IF s = <<>> THEN <<>>
    ELSE IF s[1] \in chars THEN LStrip(Tail(s), chars)
    ELSE s

\* the characters str.strip() removes and \s matches
WhiteChars == {" ", "\t", "\n", "\r"}

\* str.strip(): whitespace on both sides
Strip(s) == LStrip(RStrip(s, WhiteChars), WhiteChars)

InvalidChars == {"<", ">", ":", "\"", "/", "\\", "|", "?", "*"}

\* the replacement alone, trailing dots and spaces kept
sanitize_keep_trailing(name) ==
    [i \in 1..Len(name) |-> IF name[i] \in InvalidChars THEN "_" ELSE name[i]]

\* the trimming alone, reserved characters kept
sanitize_trim_only(name) == RStrip(name, {".", " "})

sanitize_filename(name) ==
    RStrip([i \in 1..Len(name) |-> IF name[i] \in InvalidChars THEN "_" ELSE name[i]],
           {".", " "})

DigitChars == <<"0", "1", "2", "3", "4", "5", "6", "7", "8", "9">>

RECURSIVE Digits(_)
Digits(n) ==
    IF n < 10 THEN <<DigitChars[n + 1]>>
    ELSE Digits(n \div 10) \o <<DigitChars[(n % 10) + 1]>>

\* exactly two digits: the last two of n
Pad2LastTwo(n) == <<DigitChars[((n \div 10) % 10) + 1], DigitChars[(n % 10) + 1]>>

\* f"{n:02d}" for n >= 0
Pad2(n) == IF n < 10 THEN <<"0">> \o Digits(n) ELSE Digits(n)

RECURSIVE StartsWith(_, _)
StartsWith(s, p) ==
    IF p = <<>> THEN TRUE
    ELSE IF s = <<>> THEN FALSE
    ELSE s[1] = p[1] /\ StartsWith(Tail(s), Tail(p))

RECURSIVE Contains(_, _)
\* p in s
Contains(s, p) ==
    IF StartsWith(s, p) THEN TRUE
    ELSE IF s = <<>> THEN FALSE
    ELSE Contains(Tail(s), p)

RECURSIVE RemoveAll(_, _)
\* s.replace(p, "") for a non-empty p
RemoveAll(s, p) ==
    IF s = <<>> THEN <<>>
    ELSE IF StartsWith(s, p) THEN RemoveAll(SubSeq(s, Len(p) + 1, Len(s)), p)
    ELSE <<s[1]>> \o RemoveAll(Tail(s), p)

----------------------------------------------------------------------------
\* Text matching: str.lower, str.split and the patterns of parse_series_info

LowerPairs ==
    {<<"A", "a">>, <<"C", "c">>, <<"D", "d">>, <<"E", "e">>, <<"F", "f">>,
     <<"H", "h">>, <<"M", "m">>, <<"S", "s">>, <<"X", "x">>}

lower_char(c) ==
    IF \E pair \in LowerPairs : pair[1] = c
    THEN (CHOOSE pair \in LowerPairs : pair[1] = c)[2]
    ELSE c

\* str.lower()
lower(s) == [i \in 1..Len(s) |-> lower_char(s[i])]

Range(f) == {f[i] : i \in DOMAIN f}

DigitSet == Range(DigitChars)

\* the place of a digit in "0123456789", counted from one
DigitPlace(c) == CHOOSE n \in 1..Len(DigitChars) : DigitChars[n] = c

DigitValue(c) == (CHOOSE n \in 1..Len(DigitChars) : DigitChars[n] = c) - 1

RECURSIVE ToInt(_)
\* int() of a run of digits
ToInt(ds) ==
    IF ds = <<>> THEN 0
    ELSE 10 * ToInt(SubSeq(ds, 1, Len(ds) - 1)) + DigitValue(ds[Len(ds)])

RECURSIVE RunEnd(_, _, _)
\* the first position from i on whose character is not in set
RunEnd(s, i, set) ==
    IF i <= Len(s) /\ s[i] \in set THEN RunEnd(s, i + 1, set) ELSE i

RECURSIVE FindFirst(_, _, _)
\* the first position from i on where the text p starts, 0 when there is none
FindFirst(s, p, i) ==
    IF i + Len(p) - 1 > Len(s) THEN 0
    ELSE IF SubSeq(s, i, i + Len(p) - 1) = p THEN i
    ELSE FindFirst(s, p, i + 1)

RECURSIVE Split(_, _)
\* str.split(sep)
Split(s, sep) ==
    LET at == FindFirst(s, sep, 1)
    IN  IF at = 0 THEN <<s>>
        ELSE <<SubSeq(s, 1, at - 1)>> \o Split(SubSeq(s, at + Len(sep), Len(s)), sep)

\* \s+S(\d+)\s+E(\d+) tried at position k, case ignored: the greedy runs
\* leave nothing to backtrack into
MatchSE(s, k) ==
    LET a == RunEnd(s, k, WhiteChars)
        b == RunEnd(s, a + 1, DigitSet)
        c == RunEnd(s, b, WhiteChars)
        d == RunEnd(s, c + 1, DigitSet)
    IN  [ok |-> /\ a > k /\ a <= Len(s) /\ s[a] \in {"S", "s"}
                /\ b > a + 1
                /\ c > b /\ c <= Len(s) /\ s[c] \in {"E", "e"}
                /\ d > c + 1,
         season |-> SubSeq(s, a + 1, b - 1),
         episode |-> SubSeq(s, c + 1, d - 1)]

\* \s+(\d+)x(\d+) tried at position k, case ignored
MatchX(s, k) ==
    LET a == RunEnd(s, k, WhiteChars)
        b == RunEnd(s, a, DigitSet)
        d == RunEnd(s, b + 1, DigitSet)
    IN  [ok |-> /\ a > k
                /\ b > a /\ b <= Len(s) /\ s[b] \in {"x", "X"}
                /\ d > b + 1,
         season |-> SubSeq(s, a, b - 1),
         episode |-> SubSeq(s, b + 1, d - 1)]

Max(S) == CHOOSE x \in S : \A y \in S : y <= x

Min(S) == CHOOSE n \in S : \A m \in S : n <= m

NoSeriesInfo == [found |-> FALSE, series_name |-> <<>>, season |-> 0, episode |-> 0]

SeriesInfoAt(s, k, m) ==
    [found |-> TRUE, series_name |-> Strip(SubSeq(s, 1, k - 1)),
     season |-> ToInt(m.season), episode |-> ToInt(m.episode)]

\* re.search with the lazy (.*?) in front: the match starts at the first
\* character and the name is the shortest prefix after which the rest matches
parse_series_info(title) ==
    LET at1 == {k \in 1..Len(title) : MatchSE(title, k).ok}
        at2 == {k \in 1..Len(title) : MatchX(title, k).ok}
    IN  IF at1 # {} THEN SeriesInfoAt(title, Min(at1), MatchSE(title, Min(at1)))
        ELSE IF at2 # {} THEN SeriesInfoAt(title, Min(at2), MatchX(title, Min(at2)))
        ELSE NoSeriesInfo

----------------------------------------------------------------------------
\* Content fingerprints and the checksum store

calculate_content_hash(content) ==
    IF content = <<>> THEN <<"empty_content_hash", <<>>>>
    ELSE <<"md5", content>>

\* vods/.checksums.json: absent; "corrupt", text that is not JSON or a file
\* open() refuses (json.JSONDecodeError, IOError); "unloadable", bytes that are
\* not text in the encoding of open() (UnicodeDecodeError) or JSON without a
\* length such as null (TypeError at len(checksums)); or holding a mapping
Missing == [kind |-> "missing", map |-> EmptyMap]
Corrupt == [kind |-> "corrupt", map |-> EmptyMap]
Unloadable == [kind |-> "unloadable", map |-> EmptyMap]
Stored(m) == [kind |-> "map", map |-> m]

\* the exceptions load_checksums does not catch
LoadRaises(p) == p.kind = "unloadable"

load_checksums(p) ==
    IF p.kind = "map" THEN p.map ELSE EmptyMap

\* a comparison that never finds the file equal
check_file_content_never(d, path, expected) == FALSE

check_file_content(d, path, expected) ==
    IF path \notin DOMAIN d THEN FALSE
    ELSE d[path] = expected

\* a save that leaves the file as it is
save_checksums_keeps_file(cs, file, saved) == file

\* what save_checksums leaves in the file: the mapping, or on a failure (which
\* it logs) the old file (open failed) or a cut one (the dump failed)
save_checksums(cs, file, saved) ==
    CASE saved = "ok" -> Stored(cs)
      [] saved = "open_fail" -> file
      [] OTHER -> Corrupt

----------------------------------------------------------------------------
\* Output layout

SeriesDirName == <<"s", "e", "r", "i", "e", "s">>
MoviesDirName == <<"m", "o", "v", "i", "e", "s">>
SeasonPrefix == <<"S", "e", "a", "s", "o", "n", " ">>
StrmExt == <<".", "s", "t", "r", "m">>
LiveName == <<"l", "i", "v", "e", ".", "m", "3", "u">>

\* os.path.relpath(os.path.join(base_path, seg1, ...), base_path): joining an
\* empty segment adds nothing
RelPath(segs) == SelectSeq(segs, LAMBDA g : g # <<>>)

EpisodeFileName(safe, season, episode) ==
    safe \o <<" ", "S">> \o Pad2(season) \o <<"E">> \o Pad2(episode) \o StrmExt

\* the pointer file of an episode
SeriesPath(e) ==
    LET safe_series_name == sanitize_filename(e.series_name)
    IN  RelPath(<<SeriesDirName, safe_series_name, SeasonPrefix \o Pad2(e.season),
                  EpisodeFileName(safe_series_name, e.season, e.episode)>>)

MovieFolderName(m) ==
    LET tag == <<"(">> \o m.year \o <<")">>
        movie_name == IF m.year # <<>> /\ Contains(m.title, tag)
                      THEN Strip(RemoveAll(m.title, tag))
                      ELSE Strip(m.title)
    IN  IF m.year # <<>> THEN movie_name \o <<" ">> \o tag ELSE movie_name

\* the pointer file of a movie
MoviePath(m) ==
    LET safe_folder_name == sanitize_filename(MovieFolderName(m))
    IN  RelPath(<<MoviesDirName, safe_folder_name, safe_folder_name \o StrmExt>>)

LivePath == <<LiveName>>

\* a pointer file holds the stream locator and nothing else; parse_m3u_file
\* reads the playlist with universal newlines, so no locator holds a carriage
\* return and the text read back from a file is the text written to it
StrmContent(url) == << <<url>> >>

RECURSIVE LiveLines(_)
LiveLines(live_items) ==
    IF live_items = <<>> THEN <<>>
    ELSE LET item == Head(live_items)
         IN  << <<"#EXTINF:-1", item.tvg_id, item.tvg_name, item.tvg_logo,
                  item.group_title>> \o item.title,
                <<item.url>> >> \o LiveLines(Tail(live_items))

\* m3u_content of create_live_m3u_file
LiveContent(live_items) == << <<"#EXTM3U">> >> \o LiveLines(live_items)

RECURSIVE NamesInOrder(_, _)
\* the keys of series_dict, in insertion order
NamesInOrder(s, seen) ==
    IF s = <<>> THEN <<>>
    ELSE IF Head(s).series_name = <<>> \/ Head(s).series_name \in seen
         THEN NamesInOrder(Tail(s), seen)
    ELSE <<Head(s).series_name>>
         \o NamesInOrder(Tail(s), seen \cup {Head(s).series_name})

RECURSIVE EpisodesOf(_, _)
EpisodesOf(names, s) ==
    IF names = <<>> THEN <<>>
    ELSE SelectSeq(s, LAMBDA e : e.series_name = Head(names))
         \o EpisodesOf(Tail(names), s)

\* the order in which create_strm_files_for_series visits the episodes:
\* grouped by series name, an item without a series name skipped
SeriesOrder(series_items) == EpisodesOf(NamesInOrder(series_items, {}), series_items)

----------------------------------------------------------------------------
\* The decision taken for one artifact

\* a decision that leaves the store's fingerprint out
NeedsUpdateNoHash(d, cs, path, content) ==
    \/ ~check_file_content(d, path, content)
    \/ path \notin DOMAIN cs

\* a decision that trusts the store and leaves the file out
NeedsUpdateNoFile(d, cs, path, content) ==
    IF path \notin DOMAIN cs THEN TRUE
    ELSE cs[path] # calculate_content_hash(content)

NeedsUpdate(d, cs, path, content) ==
    IF ~check_file_content(d, path, content) THEN TRUE
    ELSE IF path \notin DOMAIN cs THEN TRUE
    ELSE cs[path] # calculate_content_hash(content)

\* new only by the file's absence
IsNewFileDiskOnly(d, cs, path) == path \notin DOMAIN d

IsNewFile(d, cs, path) ==
    \/ path \notin DOMAIN d
    \/ path \notin DOMAIN cs

\* a store that holds the written path alone
StoreOnly(cs, path, content_hash) == (path :> content_hash)

\* checksums[file_path_rel] = content_hash
StoreSet(cs, path, content_hash) == (path :> content_hash) @@ cs

\* a written file counted as new or as updated, not as both
CountWrittenApart(c, cat, is_new_file, detail) ==
    [c EXCEPT ![cat].updated = IF is_new_file THEN @ ELSE @ + 1,
              ![cat].new = IF is_new_file THEN @ + 1 ELSE @,
              ![cat].details = IF is_new_file /\ cat # "live"
                               THEN Append(@, detail) ELSE @]

\* updated_count += 1, and for a new file new_files_count += 1 and its
\* descriptor appended (task.py:408-419, 499-512; for live.m3u the returned
\* pair of task.py:587)
CountWritten(c, cat, is_new_file, detail) ==
    [c EXCEPT ![cat].updated = @ + 1,
              ![cat].new = IF is_new_file THEN @ + 1 ELSE @,
              ![cat].details = IF is_new_file /\ cat # "live"
                               THEN Append(@, detail) ELSE @]

\* updated_content_types built from the new counts
RefreshTypesOfNew(c) ==
    SelectSeq(<<"series", "movies", "live">>, LAMBDA cat : c[cat].new > 0)

\* updated_content_types (task.py:848-854)
RefreshTypes(c) ==
    SelectSeq(<<"series", "movies", "live">>, LAMBDA cat : c[cat].updated > 0)

\* the end of run_task (task.py:841-869): the refresh when something was
\* written, the notification when something written was new
Outbound(c) ==
    LET total_updated == c.series.updated + c.movies.updated + c.live.updated
        total_new == c.series.new + c.movies.new + c.live.new
    IN  [refresh |-> total_updated > 0 /\ RefreshTypes(c) # <<>>,
         types |-> IF total_updated > 0 THEN RefreshTypes(c) ELSE <<>>,
         notify |-> total_updated > 0 /\ total_new > 0]

----------------------------------------------------------------------------
\* The inputs of a run

Urls == {"u1", "u2"}
SeriesNames == {<<"A", ":">>}
MovieTitles == {<<"M", ".">>}
LiveTitles == {<<"L">>}

SeriesUniverse ==
    {[series_name |-> n, season |-> 1, episode |-> 1, url |-> u] :
        n \in SeriesNames, u \in Urls}

\* categorize_items builds a MovieItem without a year
MovieUniverse == {[title |-> t, year |-> <<>>, url |-> "u1"] : t \in MovieTitles}

LiveUniverse ==
    {[title |-> t, url |-> u, tvg_id |-> "", tvg_name |-> "", tvg_logo |-> "",
      group_title |-> "g"] : t \in LiveTitles, u \in {"u1"}}

SeqsUpTo(S, n) == UNION {[1..k -> S] : k \in 0..n}

ItemChoices ==
    {its \in {[series |-> s, movies |-> m, live |-> l] :
                s \in SeqsUpTo(SeriesUniverse, MaxItems),
                m \in SeqsUpTo(MovieUniverse, MaxItems),
                l \in SeqsUpTo(LiveUniverse, MaxItems)} :
        Len(its.series) + Len(its.movies) + Len(its.live) <= MaxItems}

NoItems == [series |-> <<>>, movies |-> <<>>, live |-> <<>>]

\* what the path returned by get_m3u_file can name
PlaylistKinds == {"unset", "missing", "directory", "unreadable", "special", "file"}

\* check_m3u_file: a path is given, it exists and it is a regular file
check_m3u_file(kind) == kind \in {"unreadable", "file"}

\* the open() of parse_m3u_file succeeds on a readable file, regular or not
\* (a named pipe, a character device); it raises on the others
OpenSucceeds(kind) == kind \in {"special", "file"}

----------------------------------------------------------------------------
\* History records

ZeroCount == [updated |-> 0, new |-> 0, unchanged |-> 0, details |-> <<>>]
ZeroCounts == [series |-> ZeroCount, movies |-> ZeroCount, live |-> ZeroCount]
NoLast == [kind |-> "none"]
ZeroFailures == [series |-> 0, movies |-> 0, live |-> 0]

\* the calls at the end of run_task: refresh_jellyfin_libraries with its
\* updated_content_types, and send_telegram_notification
NoOutbound == [refresh |-> FALSE, types |-> <<>>, notify |-> FALSE]

\* wrote_map: what the run wrote, path -> content, where the write succeeded
\* and the run has not opened the file again since; processed: the content
\* intended by the last item processed for each path; wrote_cats: the
\* categories with a write that succeeded; write_failures: per category, the
\* writes that failed; outbound: the calls made at the end of the run;
\* ended: "never" (no run since the loop woke up), "no" (running), "early"
\* (returned at task.py:801), "returned" (returned after the checksum save),
\* "raised"; repeat: the run has the items of the run before, which ended
\* clean, and starts from the store that run ended with (prev_store)
StartRun(d, p) ==
    [ended |-> "no", start_disk |-> d, start_persisted |-> p,
     loaded |-> EmptyMap, writes |-> 0, clean |-> TRUE, failed |-> "none",
     repeat |-> FALSE, prev_store |-> EmptyMap, wrote_map |-> EmptyMap,
     processed |-> EmptyMap, wrote_cats |-> {}, write_failures |-> ZeroFailures,
     outbound |-> NoOutbound]

NoRun == [StartRun(EmptyMap, Missing) EXCEPT !.ended = "never"]

----------------------------------------------------------------------------
\* Scheduling: the clock, the web request threads and the run_task threads

WebThreads == 1..MaxWeb
Never == 0 - 1

\* a web request thread outside rerun_task, and one that passed the test at
\* task.py:897 having read current_time = t (prior, since: whether a run had
\* started before, and how long before the trigger)
Idle == [at |-> "idle", t |-> 0, prior |-> FALSE, since |-> 0]
Passed(t, prior, since) == [at |-> "passed", t |-> t, prior |-> prior, since |-> since]

\* time.time() is far beyond the cooldown when the program starts
StartTime == Cooldown + 1

NoTrigger == [kind |-> "none", prior |-> FALSE, since |-> 0]

----------------------------------------------------------------------------
\* The periodic loop and run_task

InitSched ==
    /\ now = StartTime
    /\ last_run_time = 0
    /\ mainRun = "idle"
    /\ web = [w \in WebThreads |-> Idle]
    /\ manual = 0
    /\ lastStart = Never
    /\ trig = NoTrigger

\* no call of categorize_items, parse_m3u_file or a file-name builder is followed
NoCall == [at |-> "none"]

InitPure ==
    /\ categorizer = NoCall
    /\ parser = NoCall
    /\ namer = NoCall

InitSync ==
    /\ pc = "loop"
    /\ playlist = "file"
    /\ items = NoItems
    /\ idx = 1
    /\ disk = EmptyMap
    /\ persisted = Missing
    /\ checksums = EmptyMap
    /\ counts = ZeroCounts
    /\ disturbed = 0
    /\ last = NoLast
    /\ run = NoRun
    /\ prev = FALSE

Init ==
    /\ InitSync
    /\ InitSched
    /\ InitPure

\* run_task when the open() of parse_m3u_file raises: the exception leaves
\* run_task and the while loop, and is caught at task.py:1002
RunRaisesOnPlaylist ==
    /\ pc = "loop"
    /\ \E kind \in PlaylistKinds :
        /\ ~OpenSucceeds(kind)
        /\ playlist' = kind
    /\ pc' = "crashed"
    /\ items' = NoItems
    /\ last' = NoLast
    /\ run' = [StartRun(disk, persisted) EXCEPT !.ended = "raised", !.failed = "playlist"]
    /\ prev' = FALSE
    /\ UNCHANGED <<idx, disk, persisted, checksums, counts, disturbed>>
    /\ UNCHANGED <<schedVars, pureVars>>

\* run_task when nothing remains after the filters: the return at task.py:801
RunReturnsEarly ==
    /\ pc = "loop"
    /\ \E kind \in PlaylistKinds :
        /\ OpenSucceeds(kind)
        /\ playlist' = kind
    /\ items' = NoItems
    /\ pc' = "sleep"
    /\ last' = NoLast
    /\ run' = [StartRun(disk, persisted) EXCEPT !.ended = "early"]
    /\ prev' = FALSE
    /\ UNCHANGED <<idx, disk, persisted, checksums, counts, disturbed>>
    /\ UNCHANGED <<schedVars, pureVars>>

\* run_task when load_checksums raises: the exception leaves run_task and the
\* while loop like the one of parse_m3u_file
RunRaisesOnLoad ==
    /\ pc = "loop"
    /\ \E kind \in PlaylistKinds :
        /\ OpenSucceeds(kind)
        /\ playlist' = kind
    /\ LoadRaises(persisted)
    /\ \E its \in ItemChoices \ {NoItems} : items' = its
    /\ pc' = "crashed"
    /\ last' = NoLast
    /\ run' = [StartRun(disk, persisted) EXCEPT !.ended = "raised", !.failed = "load"]
    /\ prev' = FALSE
    /\ UNCHANGED <<idx, disk, persisted, checksums, counts, disturbed>>
    /\ UNCHANGED <<schedVars, pureVars>>

\* run_task up to the call of create_strm_files_for_series: the checksums are loaded
RunBegins ==
    /\ pc = "loop"
    /\ \E kind \in PlaylistKinds :
        /\ OpenSucceeds(kind)
        /\ playlist' = kind
    /\ ~LoadRaises(persisted)
    /\ \E its \in ItemChoices \ {NoItems} :
        /\ items' = its
        /\ LET same == prev /\ its = items /\ load_checksums(persisted) = checksums
           IN  run' = [StartRun(disk, persisted) EXCEPT
                         !.loaded = load_checksums(persisted),
                         !.repeat = same,
                         !.prev_store = IF same THEN checksums ELSE EmptyMap]
    /\ checksums' = load_checksums(persisted)
    /\ pc' = "series"
    /\ idx' = 1
    /\ counts' = ZeroCounts
    /\ last' = NoLast
    /\ prev' = FALSE
    /\ UNCHANGED <<disk, persisted, disturbed>>
    /\ UNCHANGED <<schedVars, pureVars>>

----------------------------------------------------------------------------
\* The sync stage

\* how the file operations of one artifact end: "mkdir_fail" is an os.makedirs
\* that raises (outside every try), "open_fail" an open(path, 'w') that raises,
\* "write_fail" a write that raises after open() created or truncated the file
Outcomes == {"ok", "mkdir_fail", "open_fail", "write_fail"}

\* the body of the episode loop (task.py:375-424) and of the movie loop
\* (task.py:451-517), and the second half of create_live_m3u_file (task.py:552-587)
SyncArtifact(cat, path, content, detail, outcome, nextPc, nextIdx) ==
    LET content_hash == calculate_content_hash(content)
        needs_update == NeedsUpdate(disk, checksums, path, content)
        is_new_file == IsNewFile(disk, checksums, path)
        decided == [kind |-> cat, path |-> path, content |-> content,
                    pre_disk |-> disk, pre_store |-> checksums, pre_counts |-> counts,
                    attempted |-> needs_update,
                    wrote |-> needs_update /\ outcome = "ok"]
    IN  /\ outcome # "ok" => disturbed < MaxDisturbed
        /\ outcome \in {"open_fail", "write_fail"} => needs_update
        /\ outcome = "mkdir_fail" => cat # "live"
        /\ disturbed' = IF outcome = "ok" THEN disturbed ELSE disturbed + 1
        /\ IF outcome = "mkdir_fail"
           THEN /\ pc' = "crashed"
                /\ last' = NoLast
                /\ run' = [run EXCEPT !.ended = "raised", !.clean = FALSE,
                                      !.failed = "mkdir"]
                /\ UNCHANGED <<idx, disk, checksums, counts>>
           ELSE /\ pc' = nextPc
                /\ idx' = nextIdx
                /\ last' = decided
                /\ IF ~needs_update
                   THEN /\ counts' = IF cat = "live" THEN counts
                                     ELSE [counts EXCEPT ![cat].unchanged = @ + 1]
                        /\ run' = [run EXCEPT !.processed = (path :> content) @@ @]
                        /\ UNCHANGED <<disk, checksums>>
                   ELSE IF outcome = "ok"
                   THEN /\ disk' = (path :> content) @@ disk
                        /\ checksums' = StoreSet(checksums, path, content_hash)
                        /\ counts' = CountWritten(counts, cat, is_new_file, detail)
                        /\ run' = [run EXCEPT !.writes = @ + 1,
                                              !.wrote_map = (path :> content) @@ @,
                                              !.processed = (path :> content) @@ @,
                                              !.wrote_cats = @ \cup {cat}]
                   ELSE /\ disk' = IF outcome = "write_fail"
                                   THEN (path :> <<>>) @@ disk ELSE disk
                        /\ run' = [run EXCEPT
                                     !.writes = @ + 1, !.clean = FALSE,
                                     !.failed = "write",
                                     !.processed = (path :> content) @@ @,
                                     !.write_failures = [@ EXCEPT ![cat] = @ + 1],
                                     !.wrote_map =
                                        IF outcome = "write_fail"
                                        THEN [q \in DOMAIN @ \ {path} |-> @[q]]
                                        ELSE @]
                        /\ UNCHANGED <<checksums, counts>>

\* create_strm_files_for_series, one episode
SeriesStep ==
    /\ pc = "series"
    /\ idx <= Len(SeriesOrder(items.series))
    /\ LET episode == SeriesOrder(items.series)[idx]
       IN  \E outcome \in Outcomes :
             SyncArtifact("series", SeriesPath(episode), StrmContent(episode.url),
                          [type |-> "series", name |-> episode.series_name,
                           season |-> episode.season, episode |-> episode.episode],
                          outcome, "series", idx + 1)
    /\ UNCHANGED <<playlist, items, persisted, prev>>
    /\ UNCHANGED <<schedVars, pureVars>>

\* create_strm_files_for_series returns, create_strm_files_for_movies starts
SeriesDone ==
    /\ pc = "series"
    /\ idx > Len(SeriesOrder(items.series))
    /\ pc' = "movies"
    /\ idx' = 1
    /\ UNCHANGED <<playlist, items, disk, persisted, checksums, counts, disturbed,
                   last, run, prev>>
    /\ UNCHANGED <<schedVars, pureVars>>

\* create_strm_files_for_movies, one movie
MovieStep ==
    /\ pc = "movies"
    /\ idx <= Len(items.movies)
    /\ LET movie == items.movies[idx]
       IN  \E outcome \in Outcomes :
             SyncArtifact("movies", MoviePath(movie), StrmContent(movie.url),
                          [type |-> "movie", name |-> MovieFolderName(movie)],
                          outcome, "movies", idx + 1)
    /\ UNCHANGED <<playlist, items, persisted, prev>>
    /\ UNCHANGED <<schedVars, pureVars>>

\* create_strm_files_for_movies returns
MoviesDone ==
    /\ pc = "movies"
    /\ idx > Len(items.movies)
    /\ pc' = "live"
    /\ idx' = 1
    /\ UNCHANGED <<playlist, items, disk, persisted, checksums, counts, disturbed,
                   last, run, prev>>
    /\ UNCHANGED <<schedVars, pureVars>>

\* create_live_m3u_file with no live item: an old live.m3u is removed, and a
\* failing os.remove is logged (task.py:533-542)
LiveEmpty ==
    /\ pc = "live"
    /\ items.live = <<>>
    /\ \E removed \in BOOLEAN :
        /\ ~removed => (LivePath \in DOMAIN disk /\ disturbed < MaxDisturbed)
        /\ disturbed' = IF removed THEN disturbed ELSE disturbed + 1
        /\ disk' = IF removed THEN [q \in DOMAIN disk \ {LivePath} |-> disk[q]]
                   ELSE disk
        /\ run' = IF removed THEN run
                  ELSE [run EXCEPT !.clean = FALSE, !.failed = "remove"]
    /\ pc' = "save"
    /\ last' = NoLast
    /\ UNCHANGED <<playlist, items, idx, persisted, checksums, counts, prev>>
    /\ UNCHANGED <<schedVars, pureVars>>

\* create_live_m3u_file with live items
LiveStep ==
    /\ pc = "live"
    /\ items.live # <<>>
    /\ \E outcome \in Outcomes :
         SyncArtifact("live", LivePath, LiveContent(items.live), None, outcome,
                      "save", idx)
    /\ UNCHANGED <<playlist, items, persisted, prev>>
    /\ UNCHANGED <<schedVars, pureVars>>

\* save_checksums and the rest of run_task: a failing save is logged; it
\* leaves the old file (open failed) or a cut one (the dump failed); then
\* the media-server refresh and the notification are called for
SaveStep ==
    /\ pc = "save"
    /\ \E saved \in {"ok", "open_fail", "write_fail"} :
        /\ saved # "ok" => disturbed < MaxDisturbed
        /\ disturbed' = IF saved = "ok" THEN disturbed ELSE disturbed + 1
        /\ persisted' = save_checksums(checksums, persisted, saved)
        /\ run' = [run EXCEPT !.ended = "returned",
                              !.outbound = Outbound(counts),
                              !.clean = (@ /\ saved = "ok"),
                              !.failed = IF saved = "ok" THEN @ ELSE "save"]
        /\ prev' = (run.clean /\ saved = "ok")
    /\ pc' = "sleep"
    /\ last' = NoLast
    /\ UNCHANGED <<playlist, items, idx, disk, checksums, counts>>
    /\ UNCHANGED <<schedVars, pureVars>>

\* between two runs somebody else deletes or edits a file of the output tree,
\* or deletes or damages the checksum file
ExternalChange ==
    /\ pc = "loop"
    /\ disturbed < MaxDisturbed
    /\ disturbed' = disturbed + 1
    /\ \/ \E path \in DOMAIN disk :
            /\ \/ disk' = [q \in DOMAIN disk \ {path} |-> disk[q]]
               \/ disk' = [disk EXCEPT ![path] = << <<"edited">> >>]
            /\ UNCHANGED persisted
       \/ /\ persisted' \in {Missing, Corrupt, Unloadable} \ {persisted}
          /\ UNCHANGED disk
    /\ prev' = FALSE
    /\ items' = NoItems
    /\ checksums' = EmptyMap
    /\ UNCHANGED <<pc, playlist, idx, counts, last, run>>
    /\ UNCHANGED <<schedVars, pureVars>>

\* time.sleep(INTERVAL * 60) returns and the loop calls run_task again; what
\* the finished run left in memory is dropped, except what the next run is
\* compared with
Sleep ==
    /\ pc = "sleep"
    /\ pc' = "loop"
    /\ playlist' = "file"
    /\ items' = IF prev THEN items ELSE NoItems
    /\ checksums' = IF prev THEN checksums ELSE EmptyMap
    /\ idx' = 1
    /\ counts' = ZeroCounts
    /\ last' = NoLast
    /\ run' = NoRun
    /\ UNCHANGED <<disk, persisted, disturbed, prev>>
    /\ UNCHANGED <<schedVars, pureVars>>

SyncNext ==
    \/ RunRaisesOnPlaylist
    \/ RunReturnsEarly
    \/ RunRaisesOnLoad
    \/ RunBegins
    \/ SeriesStep
    \/ SeriesDone
    \/ MovieStep
    \/ MoviesDone
    \/ LiveEmpty
    \/ LiveStep
    \/ SaveStep
    \/ Sleep
    \/ ExternalChange

Spec == Init /\ [][SyncNext]_vars

----------------------------------------------------------------------------
\* What the history records say

Decided == last.kind # "none"

ExistedBefore == last.path \in DOMAIN last.pre_disk

ContentWasIntended ==
    IF ExistedBefore THEN last.pre_disk[last.path] = last.content ELSE FALSE

InStoreBefore == last.path \in DOMAIN last.pre_store

StoreHadFingerprint ==
    IF InStoreBefore
    THEN last.pre_store[last.path] = calculate_content_hash(last.content)
    ELSE FALSE

\* the artifact was added to the new count (and, for a pointer file, to the
\* new-item descriptors)
ReportedNew ==
    /\ counts[last.kind].new = last.pre_counts[last.kind].new + 1
    /\ last.kind # "live" =>
         Len(counts[last.kind].details) = Len(last.pre_counts[last.kind].details) + 1

\* the artifact was counted as written, and not as new
ReportedUpdated ==
    /\ counts[last.kind].updated = last.pre_counts[last.kind].updated + 1
    /\ counts[last.kind].new = last.pre_counts[last.kind].new
    /\ counts[last.kind].details = last.pre_counts[last.kind].details

RunReturned == pc = "sleep" /\ run.ended \in {"early", "returned"}

\* the run reads a regular playlist file and no file operation of it has failed
NothingFailed == check_m3u_file(playlist) /\ run.failed = "none"

----------------------------------------------------------------------------
\* C1: a sync run over the items of the run before, which ended without a
\* failure, starting from the store that run ended with and an untouched output
\* tree, and itself without a failure, writes no file and ends with the same
\* store.
C1_Idempotent ==
    (pc = "sleep" /\ run.ended = "returned" /\ run.repeat /\ run.clean
        /\ check_m3u_file(playlist))
        => (run.writes = 0 /\ checksums = run.prev_store)

C3_NewIffAbsentOnDisk ==
    (Decided /\ last.wrote /\ NothingFailed) => (ReportedNew <=> ~ExistedBefore)

\* C3 amended: a written artifact is reported new exactly when its file did
\* not exist before the write or the store had no entry for its path;
\* otherwise it is reported updated.
C3_NewIffAbsentOrUnknown ==
    (Decided /\ last.wrote) =>
        /\ ReportedNew <=> (~ExistedBefore \/ ~InStoreBefore)
        /\ ~ReportedNew <=> ReportedUpdated

\* an existing file the store does not know is written and reported new
C3_Witness ==
    /\ Decided
    /\ last.wrote
    /\ ExistedBefore
    /\ ~InStoreBefore
    /\ ReportedNew

C5_FailureIsolated ==
    /\ (Decided /\ last.wrote) =>
          checksums[last.path] = calculate_content_hash(last.content)
    /\ (Decided /\ last.attempted /\ ~last.wrote) =>
          (checksums = last.pre_store /\ counts = last.pre_counts)
    /\ (run.failed \in {"write", "mkdir"} /\ check_m3u_file(playlist)) => pc # "crashed"

\* C6: a run that returns with an empty live collection, and in which no file
\* operation failed, has removed a live.m3u that existed when it started.
C6_EmptyLiveTeardown ==
    (RunReturned /\ run.clean /\ items.live = <<>> /\ check_m3u_file(playlist)
        /\ LivePath \in DOMAIN run.start_disk)
        => LivePath \notin DOMAIN disk

\* C9: a run whose playlist path fails check_m3u_file (no path, no such path,
\* not a regular file) and in which no file operation on the output fails
\* ends with the output tree and the persisted store as they were when it
\* started.
C9_NoPlaylistNoChange ==
    (pc \in {"sleep", "crashed"} /\ run.ended \in {"early", "returned", "raised"}
        /\ run.failed \in {"none", "playlist"}
        /\ ~check_m3u_file(playlist))
        => (disk = run.start_disk /\ persisted = run.start_persisted)

\* C10: no failure leaves run_task, so the periodic loop never dies.
C10_LoopNeverDies == pc # "crashed"

\* the run has gone past load_checksums
PastLoad ==
    \/ pc \in {"series", "movies", "live", "save"}
    \/ pc = "sleep" /\ run.ended = "returned"
    \/ pc = "crashed" /\ run.failed = "mkdir"

\* every file the run wrote is on disk with the content written
FilesRemain ==
    \A path \in DOMAIN run.wrote_map :
        /\ path \in DOMAIN disk
        /\ disk[path] = run.wrote_map[path]

\* C11: load_checksums never raises: a run that reaches it goes on with the
\* empty mapping when the checksum file is missing or cannot be read as a
\* mapping, and with exactly the persisted mapping otherwise.
C11_LoadFallback ==
    /\ run.failed # "load"
    /\ PastLoad =>
          run.loaded = IF run.start_persisted.kind = "map"
                       THEN run.start_persisted.map
                       ELSE EmptyMap

\* C12: inside a run the checksum file is as it was when the run started
\* until all three categories are synced; a run that aborts before the save
\* leaves it so, and the files it wrote stay; a save that succeeds leaves the
\* in-memory store in the file, and a save that fails leaves the written files
\* as they are.
C12_StoreLifecycle ==
    /\ (pc \in {"series", "movies", "live", "save"}) =>
          (persisted = run.start_persisted /\ FilesRemain)
    /\ (pc = "crashed" /\ run.failed = "mkdir") =>
          (persisted = run.start_persisted /\ FilesRemain)
    /\ (pc = "sleep" /\ run.ended = "returned") =>
          /\ FilesRemain
          /\ run.failed # "save" =>
                (persisted.kind = "map" /\ persisted.map = checksums)
          /\ \A path \in DOMAIN run.wrote_map :
                checksums[path] = calculate_content_hash(run.wrote_map[path])

\* a run aborts after it wrote a file: the file stays, the checksum file is
\* the one the run started with
C12_Witness ==
    /\ pc = "crashed"
    /\ run.failed = "mkdir"
    /\ run.wrote_map # EmptyMap
    /\ persisted = run.start_persisted
    /\ FilesRemain

----------------------------------------------------------------------------
\* The scheduler: the loop's runs and rerun_task

ActiveRuns == (IF mainRun = "running" THEN 1 ELSE 0) + manual

Tick ==
    /\ mainRun # "dead"
    /\ now < StartTime + Horizon
    /\ now' = now + 1
    /\ UNCHANGED <<last_run_time, mainRun, web, manual, lastStart, trig>>
    /\ UNCHANGED <<syncVars, pureVars>>

\* the while loop calls run_task (task.py:997); last_run_time is not touched
MainRunStart ==
    /\ mainRun = "idle"
    /\ mainRun' = "running"
    /\ lastStart' = now
    /\ UNCHANGED <<now, last_run_time, web, manual, trig>>
    /\ UNCHANGED <<syncVars, pureVars>>

\* run_task returns and the loop sleeps, or run_task raises and the loop is left
MainRunEnd ==
    /\ mainRun = "running"
    /\ \E raised \in BOOLEAN : mainRun' = IF raised THEN "dead" ELSE "idle"
    /\ UNCHANGED <<now, last_run_time, web, manual, lastStart, trig>>
    /\ UNCHANGED <<syncVars, pureVars>>

\* rerun_task up to the test at task.py:897; a rejected trigger returns False
RerunCheck(w) ==
    /\ mainRun # "dead"
    /\ web[w] = Idle
    /\ LET current_time == now
           accepted == current_time - last_run_time > Cooldown
       IN  /\ web' = [web EXCEPT ![w] =
                         IF accepted
                         THEN Passed(current_time, lastStart # Never, now - lastStart)
                         ELSE Idle]
           /\ trig' = IF accepted THEN trig
                      ELSE [kind |-> "rejected", prior |-> lastStart # Never,
                            since |-> now - lastStart]
    /\ UNCHANGED <<now, last_run_time, mainRun, manual, lastStart>>
    /\ UNCHANGED <<syncVars, pureVars>>

\* rerun_task after the test: last_run_time is set and the thread running
\* run_task is started (task.py:898-903)
RerunStart(w) ==
    /\ mainRun # "dead"
    /\ web[w] # Idle
    /\ manual < MaxManual
    /\ last_run_time' = web[w].t
    /\ manual' = manual + 1
    /\ web' = [web EXCEPT ![w] = Idle]
    /\ trig' = [kind |-> "accepted", prior |-> web[w].prior, since |-> web[w].since]
    /\ lastStart' = now
    /\ UNCHANGED <<now, mainRun>>
    /\ UNCHANGED <<syncVars, pureVars>>

\* a manual run_task thread ends
ManualRunEnd ==
    /\ mainRun # "dead"
    /\ manual > 0
    /\ manual' = manual - 1
    /\ UNCHANGED <<now, last_run_time, mainRun, web, lastStart, trig>>
    /\ UNCHANGED <<syncVars, pureVars>>

SchedNext ==
    \/ Tick
    \/ MainRunStart
    \/ MainRunEnd
    \/ \E w \in WebThreads : RerunCheck(w)
    \/ \E w \in WebThreads : RerunStart(w)
    \/ ManualRunEnd

SchedSpec == Init /\ [][SchedNext]_vars

\* C7: at most one run_task executes at any time.
C7_OneRunAtATime == ActiveRuns <= 1

\* C8: a manual trigger that comes within the cooldown after the start of the
\* previous run, scheduled or manual, is rejected, and one that comes later is
\* accepted.
C8_CooldownAfterAnyRun ==
    /\ (trig.kind = "accepted" /\ trig.prior) => trig.since > Cooldown
    /\ (trig.kind = "rejected") => (trig.prior /\ trig.since <= Cooldown)

----------------------------------------------------------------------------
\* categorize_items: the filters, the required groups and the three lists

MaxEntries == 2     \* parsed entries given to one call of categorize_items

\* config/filters.json as load_filters finds it: absent, not loadable
\* (the except at web_ui.py:35), or a JSON object
NoFilterFile == [kind |-> "missing", value |-> EmptyMap]
BrokenFilterFile == [kind |-> "unreadable", value |-> EmptyMap]
FilterFile(obj) == [kind |-> "object", value |-> obj]

DefaultFilters == [key \in {"series", "movies", "live"} |-> <<>>]

\* filters an installation without a filter file might be given
LegacyFilters == [key \in {"series", "movies", "live"} |-> << <<"c", " ", "h", "d">> >>]

\* a load that falls back to filters of its own
load_filters_legacy(file) ==
    IF file.kind = "object" THEN file.value ELSE LegacyFilters

load_filters(file) ==
    IF file.kind = "object" THEN file.value ELSE DefaultFilters

\* filters.get(key, [])
FilterGet(filters, key) == IF key \in DOMAIN filters THEN filters[key] ELSE <<>>

\* os.getenv(NAME, "").split(','): a variable that is unset or empty gives ['']
GroupsFilters(env) == Range(Split(env, <<",">>))

\* name.lower() in [f.lower() for f in filters] or all
NameMatches(name, filters, all) ==
    \/ lower(name) \in {lower(filters[i]) : i \in DOMAIN filters}
    \/ all

\* the parsed entries categorize_items keeps as they are
ItemFields == {"title", "url", "group_title", "tvg_id", "tvg_name", "tvg_logo"}

SeriesCondition(item, cfg) ==
    LET series_filters == FilterGet(load_filters(cfg.file), "series")
        series_info == parse_series_info(item.title)
    IN  /\ series_filters # <<>> \/ cfg.all
        /\ series_info.found
        /\ NameMatches(series_info.series_name, series_filters, cfg.all)
        /\ item.group_title \in GroupsFilters(cfg.SERIES_GROUPS)

MovieCondition(item, cfg) ==
    LET movies_filters == FilterGet(load_filters(cfg.file), "movies")
    IN  /\ movies_filters # <<>> \/ cfg.all
        /\ NameMatches(item.title, movies_filters, cfg.all)
        /\ item.group_title \in GroupsFilters(cfg.MOVIES_GROUPS)

LiveCondition(item, cfg) ==
    LET live_filters == FilterGet(load_filters(cfg.file), "live")
    IN  /\ live_filters # <<>> \/ cfg.all
        /\ NameMatches(item.title, live_filters, cfg.all)
        /\ item.group_title \in GroupsFilters(cfg.LIVE_GROUPS)

\* the movie test in front of the series test
categorize_one_movies_first(item, cfg) ==
    IF MovieCondition(item, cfg) THEN "movies"
    ELSE IF SeriesCondition(item, cfg) THEN "series"
    ELSE IF LiveCondition(item, cfg) THEN "live"
    ELSE "none"

\* the list one entry is appended to: the three tests in the order of the
\* loop body, each ending in continue
categorize_one(item, cfg) ==
    IF SeriesCondition(item, cfg) THEN "series"
    ELSE IF MovieCondition(item, cfg) THEN "movies"
    ELSE IF LiveCondition(item, cfg) THEN "live"
    ELSE "none"

SeriesItem(item) ==
    LET series_info == parse_series_info(item.title)
    IN  [title |-> item.title, url |-> item.url, group_title |-> item.group_title,
         tvg_id |-> item.tvg_id, tvg_name |-> item.tvg_name,
         tvg_logo |-> item.tvg_logo, series_name |-> series_info.series_name,
         season |-> series_info.season, episode |-> series_info.episode]

\* re.search(r'\((\d{4})\)$', title): the four digits of a parenthesised year
\* at the end of the title, None (the empty text here) without one
extract_movie_year(title) ==
    LET n == Len(title)
    IN  IF /\ n >= 6
           /\ title[n] = ")"
           /\ title[n - 5] = "("
           /\ \A k \in (n - 4)..(n - 1) : title[k] \in DigitSet
        THEN SubSeq(title, n - 4, n - 1)
        ELSE <<>>

\* year stays None
MovieItem(item) ==
    [title |-> item.title, url |-> item.url, group_title |-> item.group_title,
     tvg_id |-> item.tvg_id, tvg_name |-> item.tvg_name,
     tvg_logo |-> item.tvg_logo, year |-> <<>>]

\* a live item that does not carry the grouping label
LiveTVItemNoGroup(item) ==
    [title |-> item.title, url |-> item.url, group_title |-> <<>>,
     tvg_id |-> item.tvg_id, tvg_name |-> item.tvg_name,
     tvg_logo |-> item.tvg_logo]

LiveTVItem(item) ==
    [title |-> item.title, url |-> item.url, group_title |-> item.group_title,
     tvg_id |-> item.tvg_id, tvg_name |-> item.tvg_name,
     tvg_logo |-> item.tvg_logo]

\* the inputs of a call

T_Episode == <<"A", " ", "S", "0", "1", " ", "E", "0", "1">>
T_EpisodeX == <<"a", " ", "0", "x", "0", "2">>
T_Movie == <<"M", " ", "(", "1", "9", "9", "9", ")">>
T_ChannelHD == <<"C", " ", "H", "D">>
T_ChannelFHD == <<"C", " ", "F", "H", "D">>

G_None == <<>>
G_One == <<"g">>
G_Two == <<"h">>

Entry(title, group, id) ==
    [title |-> title, url |-> "u1", group_title |-> group, tvg_id |-> id,
     tvg_name |-> "n", tvg_logo |-> ""]

EntryUniverse ==
    {Entry(T_Episode, G_One, ""), Entry(T_Episode, G_None, ""),
     Entry(T_EpisodeX, G_Two, ""), Entry(T_Movie, G_Two, ""),
     Entry(T_ChannelHD, G_One, "c"), Entry(T_ChannelFHD, G_One, "c")}

FilterFiles ==
    {NoFilterFile, BrokenFilterFile, FilterFile(EmptyMap), FilterFile(DefaultFilters),
     FilterFile([series |-> << <<"a">> >>,
                 movies |-> <<T_Episode, lower(T_Movie)>>,
                 live |-> <<T_ChannelHD, <<"c", " ", "f", "h", "d">>, T_Movie>>]),
     FilterFile("live" :> <<T_ChannelFHD>>)}

\* SERIES_GROUPS and the like: unset or empty, one label, two labels
GroupsEnvs == {<<>>, <<"g">>, <<"g", ",", "h">>}

CategorizerConfigs ==
    {[file |-> f, SERIES_GROUPS |-> sg, MOVIES_GROUPS |-> mg, LIVE_GROUPS |-> lg,
      all |-> a] :
        f \in FilterFiles, sg \in GroupsEnvs, mg \in GroupsEnvs, lg \in GroupsEnvs,
        a \in BOOLEAN}

\* categorize_items is called: the lists are empty
CategorizerStart(cfg, entries) ==
    [at |-> "loop", cfg |-> cfg, items |-> entries, i |-> 1,
     series_items |-> <<>>, movie_items |-> <<>>, live_items |-> <<>>,
     placed |-> <<>>]

CategorizeInit ==
    /\ InitSync
    /\ InitSched
    /\ parser = NoCall
    /\ namer = NoCall
    /\ \E cfg \in CategorizerConfigs, entries \in SeqsUpTo(EntryUniverse, MaxEntries) :
          categorizer = CategorizerStart(cfg, entries)

\* the body of the for loop (task.py:147-208) for one entry; placed is the
\* history of the lists chosen
CategorizeStep ==
    /\ categorizer.at = "loop"
    /\ categorizer.i <= Len(categorizer.items)
    /\ LET item == categorizer.items[categorizer.i]
           cat == categorize_one(item, categorizer.cfg)
       IN  categorizer' =
             [categorizer EXCEPT
                !.i = @ + 1,
                !.placed = Append(@, cat),
                !.series_items = IF cat = "series" THEN Append(@, SeriesItem(item)) ELSE @,
                !.movie_items = IF cat = "movies" THEN Append(@, MovieItem(item)) ELSE @,
                !.live_items = IF cat = "live" THEN Append(@, LiveTVItem(item)) ELSE @]
    /\ UNCHANGED <<syncVars, schedVars, parser, namer>>

\* the return at task.py:212
CategorizeReturn ==
    /\ categorizer.at = "loop"
    /\ categorizer.i > Len(categorizer.items)
    /\ categorizer' = [categorizer EXCEPT !.at = "done"]
    /\ UNCHANGED <<syncVars, schedVars, parser, namer>>

CategorizeNext ==
    \/ CategorizeStep
    \/ CategorizeReturn

CategorizeSpec == CategorizeInit /\ [][CategorizeNext]_vars

Called == categorizer.at # "none"
Returned == categorizer.at = "done"

\* the entries the loop has been through
Processed == 1..(categorizer.i - 1)

\* the fields of a classified item that come from the parsed entry
Base(it) == [f \in ItemFields |-> it[f]]
BaseOf(its) == [n \in 1..Len(its) |-> Base(its[n])]
EntryFields(e) == [f \in ItemFields |-> e[f]]

RECURSIVE PlacedIn(_, _, _)
\* the entries whose history says cat, in the order of the input
PlacedIn(entries, placed, cat) ==
    IF placed = <<>> THEN <<>>
    ELSE (IF Head(placed) = cat THEN <<EntryFields(Head(entries))>> ELSE <<>>)
         \o PlacedIn(Tail(entries), Tail(placed), cat)

\* the filter lists a configuration names, whatever load_filters makes of the file
ListedNames(cfg, key) ==
    IF cfg.file.kind = "object" THEN FilterGet(cfg.file.value, key) ELSE <<>>

InList(name, list) == lower(name) \in {lower(list[i]) : i \in DOMAIN list}

\* the labels a required-groups variable names: none when unset or empty
ConfiguredGroups(env) == IF env = <<>> THEN {} ELSE Range(Split(env, <<",">>))

\* C13: every entry goes to at most one list; an entry whose series name is
\* in the series filter and whose title is in the movie filter, its group in
\* both required sets, goes to series only; an entry that meets the movie and
\* the live condition and not the series condition goes to movies only.
C13_Precedence ==
    Called =>
        /\ Len(categorizer.series_items) + Len(categorizer.movie_items)
             + Len(categorizer.live_items)
             = Cardinality({n \in Processed : categorizer.placed[n] # "none"})
        /\ \A n \in Processed :
             LET item == categorizer.items[n]
                 cfg == categorizer.cfg
                 info == parse_series_info(item.title)
                 group_ok(env) == item.group_title \in GroupsFilters(env)
                 all == cfg.all
                 series_named == InList(info.series_name, ListedNames(cfg, "series"))
                 movie_named == InList(item.title, ListedNames(cfg, "movies"))
                 live_named == InList(item.title, ListedNames(cfg, "live"))
                 series_met == /\ info.found
                               /\ series_named \/ all
                               /\ group_ok(cfg.SERIES_GROUPS)
                 movie_met == (movie_named \/ all) /\ group_ok(cfg.MOVIES_GROUPS)
                 live_met == (live_named \/ all) /\ group_ok(cfg.LIVE_GROUPS)
             IN  /\ (info.found /\ series_named /\ movie_named
                        /\ group_ok(cfg.SERIES_GROUPS) /\ group_ok(cfg.MOVIES_GROUPS))
                       => categorizer.placed[n] = "series"
                 /\ (movie_met /\ live_met /\ ~series_met)
                       => categorizer.placed[n] = "movies"

\* an entry named by the series and the movie filter has gone to series
C13_Witness ==
    /\ Returned
    /\ ~categorizer.cfg.all
    /\ \E n \in Processed :
         /\ categorizer.items[n].title = T_Episode
         /\ InList(T_Episode, ListedNames(categorizer.cfg, "movies"))
         /\ categorizer.items[n].group_title \in GroupsFilters(categorizer.cfg.MOVIES_GROUPS)
         /\ categorizer.placed[n] = "series"
         /\ categorizer.movie_items = <<>>

\* the required-groups variable of a list
GroupsEnvOf(cfg, cat) ==
    CASE cat = "series" -> cfg.SERIES_GROUPS
      [] cat = "movies" -> cfg.MOVIES_GROUPS
      [] OTHER -> cfg.LIVE_GROUPS

\* C14: an entry goes to a list only if its grouping label is one of the
\* labels configured for that list; with no label configured nothing goes to
\* the list, an entry without a grouping label included.
C14_GroupRequired ==
    Called =>
        \A n \in Processed :
            categorizer.placed[n] # "none" =>
                categorizer.items[n].group_title
                    \in ConfiguredGroups(GroupsEnvOf(categorizer.cfg, categorizer.placed[n]))

\* no filter list names anything: the file is missing or not loadable, or
\* its lists are empty or absent
NoNamesListed(cfg) ==
    \A key \in {"series", "movies", "live"} : ListedNames(cfg, key) = <<>>

C17_FhdSurvives ==
    Returned =>
        \A n, m \in Processed :
            (/\ categorizer.placed[n] = "live"
             /\ categorizer.placed[m] = "live"
             /\ categorizer.items[n].title = T_ChannelHD
             /\ categorizer.items[m].title = T_ChannelFHD
             /\ categorizer.items[n].tvg_id # ""
             /\ categorizer.items[n].tvg_id = categorizer.items[m].tvg_id)
            => /\ Cardinality({k \in 1..Len(categorizer.live_items) :
                     categorizer.live_items[k].tvg_id = categorizer.items[n].tvg_id}) = 1
               /\ \A k \in 1..Len(categorizer.live_items) :
                     categorizer.live_items[k].tvg_id = categorizer.items[n].tvg_id
                        => categorizer.live_items[k].title = T_ChannelFHD

----------------------------------------------------------------------------
\* parse_m3u_file: the text read from the playlist is a sequence of
\* characters in which each occurrence of '#EXTM3U', of '#EXTINF:' and of an
\* attribute name with its '=' is one element

MaxDocLen == 5      \* elements of a playlist document

M3UMarker == "#EXTM3U"
EntryDelimiter == "#EXTINF:"
Newline == "\n"

RECURSIVE SplitAt(_, _)
\* str.split(sep) for a separator that is one element
SplitAt(s, sep) ==
    LET at == FindFirst(s, <<sep>>, 1)
    IN  IF at = 0 THEN <<s>>
        ELSE <<SubSeq(s, 1, at - 1)>> \o SplitAt(SubSeq(s, at + 1, Len(s)), sep)

\* task.py:78-79: the text after a leading '#EXTM3U'
SkipMarker(content) ==
    IF StartsWith(Strip(content), <<M3UMarker>>)
    THEN SubSeq(content, FindFirst(content, <<M3UMarker>>, 1) + 1, Len(content))
    ELSE content

\* a split that keeps the text in front of the first delimiter
SplitEntriesAll(content) == SplitAt(content, EntryDelimiter)

\* content.split('#EXTINF:')[1:]
SplitEntries(content) == Tail(SplitAt(content, EntryDelimiter))

\* entry.strip().split("\n", 1)
SplitLines(entry) ==
    LET stripped == Strip(entry)
        at == FindFirst(stripped, <<Newline>>, 1)
    IN  IF at = 0 THEN <<stripped>>
        ELSE <<SubSeq(stripped, 1, at - 1), SubSeq(stripped, at + 1, Len(stripped))>>

RECURSIVE extract_attribute(_, _)
\* re.search(attr_name + '="([^"]*)"', text): the first place where the name,
\* a quote, and a closing quote follow each other
extract_attribute(text, attr_name) ==
    LET at == FindFirst(text, <<attr_name, "\"">>, 1)
        rest == SubSeq(text, at + 2, Len(text))
        close == FindFirst(rest, <<"\"">>, 1)
    IN  IF at = 0 THEN <<>>
        ELSE IF close # 0 THEN SubSeq(rest, 1, close - 1)
        ELSE extract_attribute(SubSeq(text, at + 1, Len(text)), attr_name)

\* re.search(r',\s*([^,]+)$', info_line): the text after the last comma,
\* without the whitespace in front of it, of which the last character stays
\* when there is nothing else; the whole line when nothing follows the last
\* comma or there is no comma
TitleOf(info_line) ==
    LET commas == {k \in 1..Len(info_line) : info_line[k] = ","}
        last_comma == CHOOSE k \in commas : \A m \in commas : m <= k
        after == SubSeq(info_line, last_comma + 1, Len(info_line))
        text == LStrip(after, WhiteChars)
    IN  IF commas = {} THEN info_line
        ELSE IF after = <<>> THEN info_line
        ELSE IF text = <<>> THEN <<after[Len(after)]>>
        ELSE text

\* the dict appended for one entry (task.py:89-109)
ParsedItem(lines) ==
    [title |-> TitleOf(lines[1]),
     url |-> Strip(lines[2]),
     tvg_id |-> extract_attribute(lines[1], "tvg-id="),
     tvg_name |-> extract_attribute(lines[1], "tvg-name="),
     tvg_logo |-> extract_attribute(lines[1], "tvg-logo="),
     group_title |-> extract_attribute(lines[1], "group-title=")]

DocAlphabet == {M3UMarker, EntryDelimiter, Newline, " ", ",", "a"}

Documents == SeqsUpTo(DocAlphabet, MaxDocLen)

ParseInit ==
    /\ InitSync
    /\ InitSched
    /\ categorizer = NoCall
    /\ namer = NoCall
    /\ \E content \in Documents :
          parser = [at |-> "read", content |-> content, entries |-> <<>>,
                    i |-> 1, items |-> <<>>]

\* task.py:77-82: the marker is skipped and the text split into entries
ParseSplit ==
    /\ parser.at = "read"
    /\ parser' = [parser EXCEPT !.at = "loop",
                                !.entries = SplitEntries(SkipMarker(parser.content))]
    /\ UNCHANGED <<syncVars, schedVars, categorizer, namer>>

\* the body of the for loop (task.py:84-109) for one entry
ParseEntry ==
    /\ parser.at = "loop"
    /\ parser.i <= Len(parser.entries)
    /\ LET lines == SplitLines(parser.entries[parser.i])
       IN  parser' = [parser EXCEPT
                        !.i = @ + 1,
                        !.items = IF Len(lines) < 2 THEN @
                                  ELSE Append(@, ParsedItem(lines))]
    /\ UNCHANGED <<syncVars, schedVars, categorizer, namer>>

\* the return at task.py:111
ParseReturn ==
    /\ parser.at = "loop"
    /\ parser.i > Len(parser.entries)
    /\ parser' = [parser EXCEPT !.at = "done"]
    /\ UNCHANGED <<syncVars, schedVars, categorizer, namer>>

ParseNext ==
    \/ ParseSplit
    \/ ParseEntry
    \/ ParseReturn

ParseSpec == ParseInit /\ [][ParseNext]_vars

\* the places of the delimiters in a document, and the segment each starts:
\* the text up to the next delimiter or the end
DelimiterPlaces(doc) == {k \in 1..Len(doc) : doc[k] = EntryDelimiter}

SegmentAt(doc, k) ==
    LET later == {m \in DelimiterPlaces(doc) : m > k}
    IN  SubSeq(doc, k + 1, IF later = {} THEN Len(doc) ELSE Min(later) - 1)

RECURSIVE Ascending(_)
\* a set of numbers as a sequence in rising order
Ascending(S) == IF S = {} THEN <<>> ELSE <<Min(S)>> \o Ascending(S \ {Min(S)})

HasNewline(text) == Newline \in Range(text)

\* the locators the items hold, in the order of the list
UrlsOf(its) == [n \in 1..Len(its) |-> its[n].url]

\* the text after the first newline of a trimmed segment, trimmed
LocatorOf(segment) ==
    LET t == Strip(segment)
        nl == Min({k \in 1..Len(t) : t[k] = Newline})
    IN  Strip(SubSeq(t, nl + 1, Len(t)))

\* C18 as stated: the items returned are, in document order, one for each
\* segment started by a delimiter that contains a newline; the text in front
\* of the first delimiter and the segments without a newline give none.
C18_EntryPerSegmentWithNewline ==
    parser.at = "done" =>
        Len(parser.items)
            = Cardinality({k \in DelimiterPlaces(parser.content) :
                             HasNewline(SegmentAt(parser.content, k))})

\* C18 amended: the items returned are, in document order, one for each
\* segment started by a delimiter that still contains a newline when the
\* whitespace around it is removed, each with the trimmed text after the
\* segment's first newline as its locator; the text in front of the first
\* delimiter and every other segment give none.
C18_EntryPerTrimmedSegment ==
    parser.at = "done" =>
        LET doc == parser.content
            kept == {k \in DelimiterPlaces(doc) : HasNewline(Strip(SegmentAt(doc, k)))}
            order == Ascending(kept)
        IN  /\ Len(parser.items) = Cardinality(kept)
            /\ UrlsOf(parser.items)
                 = [n \in 1..Len(order) |-> LocatorOf(SegmentAt(doc, order[n]))]
            /\ \A n \in 1..Len(parser.items) : parser.items[n].url # <<>>

\* a document with text and a newline in front of the first delimiter, from
\* which one entry came
C18_Witness ==
    /\ parser.at = "done"
    /\ Len(parser.items) = 1
    /\ parser.content # <<>>
    /\ parser.content[1] # EntryDelimiter
    /\ HasNewline(SubSeq(parser.content, 1, Min(DelimiterPlaces(parser.content)) - 1))

\* the header line of a segment: the text in front of the first newline of
\* the trimmed segment
HeaderOf(segment) ==
    LET t == Strip(segment)
        nl == Min({k \in 1..Len(t) : t[k] = Newline})
    IN  SubSeq(t, 1, nl - 1)

\* the text that follows the last comma of a line, the line itself when it
\* has no comma
AfterLastComma(line) ==
    LET commas == {k \in 1..Len(line) : line[k] = ","}
    IN  IF commas = {} THEN line
        ELSE SubSeq(line, Max(commas) + 1, Len(line))

\* C23: the title of every item returned is the text that follows the last
\* comma of its header line, which is empty when nothing follows that comma,
\* and the whole header line when the line has no comma.
C23_TitleAfterLastComma ==
    parser.at = "done" =>
        LET doc == parser.content
            kept == {k \in DelimiterPlaces(doc) : HasNewline(Strip(SegmentAt(doc, k)))}
            order == Ascending(kept)
        IN  \A n \in 1..Len(parser.items) :
                n <= Len(order) =>
                    parser.items[n].title = AfterLastComma(HeaderOf(SegmentAt(doc, order[n])))

----------------------------------------------------------------------------
\* The names the sync stage builds from a title: the directory and the file
\* of an episode (task.py:370-386) and of a movie (task.py:453-480)

MaxNameLen == 3     \* characters of a series name or a movie title

NameAlphabet == {"A", ":", ".", " ", "/", "\\"}

Names == SeqsUpTo(NameAlphabet, MaxNameLen)

\* the values int() gives for the season and the episode digits
Numbers == {0, 1, 9, 10, 99, 100, 101}

\* a series name is trimmed by parse_series_info, and an item without one is
\* skipped at task.py:353
SeriesNameInputs == {n \in Names : n # <<>> /\ Strip(n) = n}

NamerInputs ==
    {[at |-> "title", kind |-> "series", name |-> n, season |-> s, episode |-> e,
      safe |-> <<>>, path |-> <<>>] :
        n \in SeriesNameInputs, s \in Numbers, e \in Numbers}
    \cup
    {[at |-> "title", kind |-> "movie", name |-> n, season |-> 0, episode |-> 0,
      safe |-> <<>>, path |-> <<>>] : n \in Names}
    \cup
    {[at |-> "title", kind |-> "live", name |-> <<>>, season |-> 0, episode |-> 0,
      safe |-> <<>>, path |-> <<>>]}

NameInit ==
    /\ InitSync
    /\ InitSched
    /\ categorizer = NoCall
    /\ parser = NoCall
    /\ namer \in NamerInputs

\* task.py:370-386: safe_series_name and the path of the episode's file
NameEpisode ==
    /\ namer.at = "title"
    /\ namer.kind = "series"
    /\ namer' = [namer EXCEPT
                   !.at = "named",
                   !.safe = sanitize_filename(namer.name),
                   !.path = SeriesPath([series_name |-> namer.name,
                                        season |-> namer.season,
                                        episode |-> namer.episode])]
    /\ UNCHANGED <<syncVars, schedVars, categorizer, parser>>

\* task.py:453-480: safe_folder_name and the path of the movie's file
NameMovie ==
    /\ namer.at = "title"
    /\ namer.kind = "movie"
    /\ LET movie == [title |-> namer.name, year |-> <<>>]
       IN  namer' = [namer EXCEPT
                       !.at = "named",
                       !.safe = sanitize_filename(MovieFolderName(movie)),
                       !.path = MoviePath(movie)]
    /\ UNCHANGED <<syncVars, schedVars, categorizer, parser>>

\* task.py:529-530: the path of live.m3u, which no title enters
NameLive ==
    /\ namer.at = "title"
    /\ namer.kind = "live"
    /\ namer' = [namer EXCEPT !.at = "named", !.path = LivePath]
    /\ UNCHANGED <<syncVars, schedVars, categorizer, parser>>

NameNext ==
    \/ NameEpisode
    \/ NameMovie
    \/ NameLive

NameSpec == NameInit /\ [][NameNext]_vars

Named == namer.at = "named"

\* none of < > : " / \ | ? * and no dot or space at the end
CleanSegment(s) ==
    /\ \A k \in 1..Len(s) : s[k] \notin {"<", ">", ":", "\"", "/", "\\", "|", "?", "*"}
    /\ s # <<>> => s[Len(s)] \notin {".", " "}

\* safe is text with each reserved character replaced by an underscore and
\* dots and spaces cut from its end
SanitizedFrom(safe, text) ==
    /\ Len(safe) <= Len(text)
    /\ \A k \in 1..Len(safe) :
         \/ safe[k] = text[k] /\ text[k] \notin InvalidChars
         \/ safe[k] = "_" /\ text[k] \in InvalidChars
    /\ \A k \in (Len(safe) + 1)..Len(text) : text[k] \in {".", " "}
    /\ CleanSegment(safe)

\* C19: the sanitized name holds no reserved character and ends in neither a
\* dot nor a space, and the directory and the file of an episode and of a
\* movie are built from the sanitized name: the directory is that name, the
\* file that name with the episode suffix or the extension.
C19_Sanitized ==
    Named =>
        LET text == IF namer.kind = "series" THEN namer.name ELSE Strip(namer.name)
            file == namer.path[Len(namer.path)]
            dirs == SubSeq(namer.path, 1, Len(namer.path) - 1)
        IN  /\ SanitizedFrom(namer.safe, text)
            /\ \A k \in 1..Len(namer.path) : CleanSegment(namer.path[k])
            /\ SubSeq(file, 1, Len(namer.safe)) = namer.safe
            /\ namer.safe # <<>> => dirs[2] = namer.safe
            /\ namer.kind = "movie" => file = namer.safe \o StrmExt
            /\ namer.kind = "series" =>
                 /\ Len(file) > Len(namer.safe)
                 /\ file[Len(namer.safe) + 1] = " "

\* a name with a reserved character and a dot at its end has been sanitized
\* and used for the directory and the file of a movie
C19_Witness ==
    /\ Named
    /\ namer.kind = "movie"
    /\ namer.name = <<"A", ":", ".">>
    /\ namer.safe = <<"A", "_">>
    /\ namer.path = <<MoviesDirName, <<"A", "_">>, <<"A", "_">> \o StrmExt>>

\* the numbers read from the end of an episode file name: the digits in
\* front of the extension, and the digits between the last " S" and the "E"
\* in front of those
DecodeEpisodeFileName(file) ==
    LET stem == SubSeq(file, 1, Len(file) - Len(StrmExt))
        RECURSIVE DigitsBack(_, _)
        DigitsBack(s, k) == IF k >= 1 /\ s[k] \in DigitSet THEN DigitsBack(s, k - 1) ELSE k
        e_at == DigitsBack(stem, Len(stem))
        s_at == DigitsBack(stem, e_at - 1)
    IN  [ok |-> /\ Len(file) >= Len(StrmExt)
                /\ SubSeq(file, Len(file) - Len(StrmExt) + 1, Len(file)) = StrmExt
                /\ e_at >= 3 /\ e_at < Len(stem) /\ stem[e_at] = "E"
                /\ s_at >= 2 /\ s_at < e_at - 1 /\ stem[s_at] = "S"
                /\ stem[s_at - 1] = " ",
         season |-> ToInt(SubSeq(stem, s_at + 1, e_at - 1)),
         episode |-> ToInt(SubSeq(stem, e_at + 1, Len(stem)))]

\* C20: the file name of an episode decodes to its season and episode, each
\* written with at least two digits, and no other season and episode of the
\* same series gives the same path.
C20_RoundTrip ==
    (Named /\ namer.kind = "series") =>
        LET file == namer.path[Len(namer.path)]
            decoded == DecodeEpisodeFileName(file)
        IN  /\ decoded.ok
            /\ decoded.season = namer.season
            /\ decoded.episode = namer.episode
            /\ \A s \in Numbers, e \in Numbers :
                 <<s, e>> # <<namer.season, namer.episode>> =>
                    SeriesPath([series_name |-> namer.name, season |-> s,
                                episode |-> e]) # namer.path

\* an episode with a three-digit season and a one-digit episode, of a series
\* whose name ends in what looks like a season
C20_Witness ==
    /\ Named
    /\ namer.kind = "series"
    /\ namer.season = 100
    /\ namer.episode = 9
    /\ namer.name = <<"A", " ", "A">>
    /\ DecodeEpisodeFileName(namer.path[Len(namer.path)]).season = 100

----------------------------------------------------------------------------
\* The sync run as a whole: its outbound calls, its store, its counts

Categories == {"series", "movies", "live"}

TotalUpdated == counts.series.updated + counts.movies.updated + counts.live.updated

TotalNew == counts.series.new + counts.movies.new + counts.live.new

\* every write the run attempted has succeeded
NoWriteFailed == \A cat \in Categories : run.write_failures[cat] = 0

\* C21: at the end of a run that run_task returns from, the media-server
\* refresh is called exactly when some artifact was written in the run, with
\* exactly the categories that had a write, each once and in the order series,
\* movies, live; the notification is called exactly when some artifact was
\* reported new; a run without a write calls neither.
C21_OutboundTriggers ==
    RunReturned =>
        /\ run.outbound.refresh <=> run.wrote_cats # {}
        /\ Range(run.outbound.types) = run.wrote_cats
        /\ Len(run.outbound.types) = Cardinality(run.wrote_cats)
        /\ run.outbound.notify <=> TotalNew > 0
        /\ run.wrote_cats = {} => (~run.outbound.refresh /\ ~run.outbound.notify)

\* a run that rewrote artifacts of two categories, none of them new: the
\* refresh is called with both, the notification is not
C21_Witness ==
    /\ RunReturned
    /\ run.outbound.refresh
    /\ Len(run.outbound.types) = 2
    /\ ~run.outbound.notify

\* C25: in a sync run in which no write has failed, every artifact path
\* processed so far exists, holds the content intended by the last item
\* processed for it, and has the fingerprint of that content as its entry of
\* the in-memory store, whatever the store and the output tree held before.
C25_StoreAgreesWithDisk ==
    (pc \in {"series", "movies", "live", "save"} \/ (RunReturned /\ run.ended = "returned"))
        => (NoWriteFailed =>
              \A path \in DOMAIN run.processed :
                  /\ path \in DOMAIN disk
                  /\ path \in DOMAIN checksums
                  /\ IF path \in DOMAIN disk /\ path \in DOMAIN checksums
                     THEN /\ disk[path] = run.processed[path]
                          /\ checksums[path] = calculate_content_hash(disk[path])
                     ELSE FALSE)

\* a returned run that found an artifact with other content and another store
\* entry, and one with no file and no entry
C25_Witness ==
    /\ RunReturned /\ run.ended = "returned"
    /\ NoWriteFailed
    /\ \E path \in DOMAIN run.processed :
          /\ path \in DOMAIN run.start_disk
          /\ path \in DOMAIN run.loaded
          /\ run.start_disk[path] # run.processed[path]
          /\ run.loaded[path] # calculate_content_hash(run.processed[path])
    /\ \E path \in DOMAIN run.processed :
          /\ path \notin DOMAIN run.start_disk
          /\ path \notin DOMAIN run.loaded

\* the steps of the sync stage: from load_checksums' return to save_checksums
InSync == pc \in {"series", "movies", "live", "save"}

\* C27: no step of the sync stage removes a key of the in-memory store or a
\* file other than live.m3u, and the store a run saves has every key it loaded.
C27_NothingPruned ==
    /\ [][InSync =>
            /\ DOMAIN checksums \subseteq DOMAIN checksums'
            /\ \A path \in DOMAIN disk \ {LivePath} : path \in DOMAIN disk']_vars
    /\ []((RunReturned /\ run.ended = "returned")
            => /\ DOMAIN run.loaded \subseteq DOMAIN checksums
               /\ \A path \in DOMAIN run.start_disk \ {LivePath} : path \in DOMAIN disk)

\* a run whose items no longer have the episode or the channels of the run
\* before: the pointer file stays, live.m3u is removed, both store entries stay
C27_Witness ==
    /\ RunReturned /\ run.ended = "returned"
    /\ items.series = <<>> /\ items.live = <<>>
    /\ LivePath \in DOMAIN run.start_disk
    /\ LivePath \notin DOMAIN disk
    /\ LivePath \in DOMAIN run.loaded
    /\ LivePath \in DOMAIN checksums
    /\ \E path \in DOMAIN disk \cap DOMAIN checksums : path[1] = SeriesDirName

\* the series operation has returned; the movie operation has returned
SeriesReturned == pc \in {"movies", "live", "save"} \/ (RunReturned /\ run.ended = "returned")

MoviesReturned == pc \in {"live", "save"} \/ (RunReturned /\ run.ended = "returned")

\* the counts a pointer-file operation returns balance over the artifacts it
\* processed
Balanced(cat, processed) ==
    /\ counts[cat].new <= counts[cat].updated
    /\ Len(counts[cat].details) = counts[cat].new
    /\ counts[cat].updated + counts[cat].unchanged + run.write_failures[cat] = processed

\* C28: for the series and the movie operation, the returned new count is at
\* most the written count, the new-item descriptors are as many as the new
\* count, and the written count, the unchanged count and the failed writes
\* add up to the artifacts processed.
C28_CountsBalance ==
    /\ SeriesReturned => Balanced("series", Len(SeriesOrder(items.series)))
    /\ MoviesReturned => Balanced("movies", Len(items.movies))

\* a series operation with one write that failed and one that wrote a new
\* episode
C28_Witness ==
    /\ SeriesReturned
    /\ run.write_failures.series = 1
    /\ counts.series.updated = 1
    /\ counts.series.new = 1

----------------------------------------------------------------------------
\* Containment of the artifact paths in the output root

\* a path segment that names an entry of its directory: not empty, neither
\* "." nor "..", no separator in it
PlainSegment(seg) ==
    /\ seg \notin {<<>>, <<".">>, <<".", ".">>}
    /\ \A k \in 1..Len(seg) : seg[k] \notin {"/", "\\"}

\* C26: the path of every artifact, relative to the output root, is live.m3u
\* or starts with series or movies and goes on below it, and each of its
\* segments names a directory entry: none is empty, "." or "..", none holds
\* "/" or "\", whatever the series name or the title.
C26_InsideRoot ==
    Named =>
        /\ \A k \in 1..Len(namer.path) : PlainSegment(namer.path[k])
        /\ \/ namer.kind = "live" /\ namer.path = <<LiveName>>
           \/ namer.kind = "series" /\ Len(namer.path) >= 3 /\ namer.path[1] = SeriesDirName
           \/ namer.kind = "movie" /\ Len(namer.path) >= 2 /\ namer.path[1] = MoviesDirName

\* the movie title "..": the sanitized name is empty and the pointer file is
\* movies/.strm
C26_Witness ==
    /\ Named
    /\ namer.kind = "movie"
    /\ namer.name = <<".", ".">>
    /\ namer.path = <<MoviesDirName, StrmExt>>

----------------------------------------------------------------------------
\* The numbers of a series item and the year of a movie item

\* C22 as stated: every item of the series list has a season and an episode
\* of at least 1.
C22_NumbersPositive ==
    Called =>
        \A n \in 1..Len(categorizer.series_items) :
            /\ categorizer.series_items[n].season >= 1
            /\ categorizer.series_items[n].episode >= 1

\* C22 amended: every item of the series list has a season and an episode of
\* at least 0, the values of digit runs of its title: the decimal numeral of
\* each occurs in the title, and a run of zeros gives 0.
C22_NumbersFromTitle ==
    Called =>
        \A n \in 1..Len(categorizer.series_items) :
            LET it == categorizer.series_items[n]
            IN  /\ it.season \in Nat
                /\ it.episode \in Nat
                /\ Contains(it.title, Digits(it.season))
                /\ Contains(it.title, Digits(it.episode))

\* the title "a 0x02" has been placed in the series list, with season 0
C22_Witness ==
    /\ Returned
    /\ \E n \in 1..Len(categorizer.series_items) :
          /\ categorizer.series_items[n].title = T_EpisodeX
          /\ categorizer.series_items[n].season = 0
          /\ categorizer.series_items[n].episode = 2

\* C24: every item of the movie list whose title ends with a parenthesised
\* four-digit year carries that year and every other one carries none, and
\* the directory and the pointer file of the item have the same sanitized
\* name.
C24_YearFromTitle ==
    Called =>
        \A n \in 1..Len(categorizer.movie_items) :
            LET it == categorizer.movie_items[n]
                path == MoviePath(it)
            IN  /\ it.year = extract_movie_year(it.title)
                /\ path[Len(path)] = sanitize_filename(MovieFolderName(it)) \o StrmExt
                /\ Len(path) = 3 => path[2] = sanitize_filename(MovieFolderName(it))

====
